---- MODULE Spec2Model ----
(***************************************************************************)
(* PNGDecoder: a zlib/DEFLATE decompressor (myzlib.py) and the PNG chunk,  *)
(* IHDR and scanline-defilter code (PNGDecoder.py), as state machines.     *)
(*                                                                         *)
(* Python sequences are 0-based; TLA+ sequences are 1-based, so the byte   *)
(* at Python index k of a buffer s is s[k + 1].                            *)
(***************************************************************************)
EXTENDS Integers, Sequences, FiniteSets, TLC

VARIABLES
    pc,                  \* position of the running call
    exc,                 \* the exception that ended the call, or "none"
    ret,                 \* the value the call returned, or NoValue
    mem,                 \* BitReader.mem
    r,                   \* the BitReader's byte_pos, byte, bit_pos
    output,              \* inflate's output list
    BFINAL,              \* inflate's BFINAL of the block being decoded
    literal_length_tree, \* the literal/length tree of the current block
    distance_tree,       \* the distance tree of the current block
    data,                \* Check_PNG's data: the bytes of the PNG file
    IHDR_data,           \* the IHDR payload: Check_PNG's IHDR_data, read_IHDR's data
    id,                  \* process_IDAT's id
    IDAT_stream,         \* process_IDAT's IDAT_stream, a list of payloads
    width,               \* Filter.width
    height,              \* Filter.height
    bytes_per_pixel,     \* Filter.bytes_per_pixel
    idat_data,           \* Filter.idat_data
    recon,               \* Filter.recon
    idat_i,              \* re_filter's i, the index into idat_data
    row,                 \* re_filter's r
    col,                 \* re_filter's c
    filter_type,         \* re_filter's filter_type
    bl_given,            \* build_tree's argument bl
    alphabet_given,      \* len(alphabet) of build_tree's argument alphabet
    table                \* build_tree's tree

zlib_vars == <<mem, r, output, BFINAL, literal_length_tree, distance_tree>>
png_vars == <<data, IHDR_data, id, IDAT_stream>>
filter_vars == <<width, height, bytes_per_pixel, idat_data, recon, idat_i, row, col, filter_type>>
table_vars == <<bl_given, alphabet_given, table>>

vars == <<pc, exc, ret, zlib_vars, png_vars, filter_vars, table_vars>>

-----------------------------------------------------------------------------
(* Bounds *)

MaxBody == 4       \* bytes of DEFLATE data after the zlib header
MaxChunks == 2     \* chunks between IHDR and IEND in a PNG file
MaxPayload == 2    \* payload bytes of such a chunk
MaxWidth == 2      \* width of an image that is defiltered
MaxHeight == 2     \* height of an image that is defiltered

-----------------------------------------------------------------------------
(* Values *)

NoValue == <<-1>>
NoSymbol == -1           \* Node.symbol = '' (never assigned)
NoTree == <<>>

Pow2(n) == 2 ^ n

Min(a, b) == IF a <= b THEN a ELSE b

\* the sequences over S of length at most n
SeqsUpTo(S, n) == UNION {[1..k -> S] : k \in 0..n}

\* e, once v is evaluated: TLC evaluates an operator's arguments on demand,
\* and a loop unrolled by recursion must run its turns first to last
After(v, e) == IF v = v THEN e ELSE e

\* F(v), with v evaluated once: an assignment "x = v" followed by code that
\* reads x
Bind(v, F(_)) == CHOOSE out \in {F(x) : x \in {v}} : TRUE

\* Python slice s[lo:hi] with 0 <= lo
Slice(s, lo, hi) == SubSeq(s, lo + 1, Min(hi, Len(s)))

-----------------------------------------------------------------------------
(* BitReader *)

\* a step of the reader: the reader after it, the value read, and the
\* exception raised ("none" when it returned)
Ok(rd, v) == [r |-> rd, v |-> v, exc |-> "none"]
Raise(rd, e) == [r |-> rd, v |-> 0, exc |-> e]

BitReader == [byte_pos |-> 0, byte |-> 0, bit_pos |-> 0]

read_byte(rd) ==
    IF rd.byte_pos >= Len(mem)
    THEN Raise([rd EXCEPT !.bit_pos = 0], "IndexError")
    ELSE Ok([rd EXCEPT !.bit_pos = 0, !.byte_pos = @ + 1], mem[rd.byte_pos + 1])

\* read_bit taking the bits of a byte from the most significant end
read_bit_msb_first(rd) ==
    LET b == read_byte(rd)
        r1 == IF rd.bit_pos <= 0
              THEN [b.r EXCEPT !.byte = b.v, !.bit_pos = 8]
              ELSE rd
    IN  IF rd.bit_pos <= 0 /\ b.exc # "none"
        THEN b
        ELSE Ok([r1 EXCEPT !.bit_pos = @ - 1, !.byte = (@ * 2) % 256], r1.byte \div 128)

read_bit(rd) ==
    LET b == read_byte(rd)
        r1 == IF rd.bit_pos <= 0
              THEN [b.r EXCEPT !.byte = b.v, !.bit_pos = 8]
              ELSE rd
    IN  IF rd.bit_pos <= 0 /\ b.exc # "none"
        THEN b
        ELSE Ok([r1 EXCEPT !.bit_pos = @ - 1, !.byte = @ \div 2], r1.byte % 2)

\* for i in range(i, N): bits |= read_bit() << i
RECURSIVE read_bits_loop(_, _, _, _)
read_bits_loop(rd, i, N, bits) ==
    IF i >= N THEN Ok(rd, bits)
    ELSE LET b == read_bit(rd)
         IN  IF b.exc # "none" THEN b
             ELSE read_bits_loop(b.r, i + 1, N, bits + b.v * Pow2(i))

read_bits(rd, N) == read_bits_loop(rd, 0, N, 0)

\* for i in range(i, n): out |= read_byte() << (8 * i)
RECURSIVE read_bytes_loop(_, _, _, _)
read_bytes_loop(rd, i, n, out) ==
    IF i >= n THEN Ok(rd, out)
    ELSE LET b == read_byte(rd)
         IN  IF b.exc # "none" THEN b
             ELSE read_bytes_loop(b.r, i + 1, n, out + b.v * Pow2(8 * i))

\* out = 0; for i in range(out): ...; return out
read_bytes(rd, N) ==
    LET out == 0
    IN  read_bytes_loop(rd, 0, out, out)

-----------------------------------------------------------------------------
(* Huffman trees: a node is named by the bits of the path from the root    *)
(* (0 = left, 1 = right); a tree maps each node it holds to its symbol.    *)

HuffmanTree == (<<>> :> NoSymbol)

\* the code_len bits of huffman_code, most significant first
CodeBits(huffman_code, code_len) ==
    [i \in 1..code_len |-> (huffman_code \div Pow2(code_len - i)) % 2]

insert(tree, huffman_code, code_len, alphabet) ==
    LET path == CodeBits(huffman_code, code_len)
        walked == {SubSeq(path, 1, k) : k \in 0..code_len}
        created == [n \in walked \ DOMAIN tree |-> NoSymbol]
    IN  [(tree @@ created) EXCEPT ![path] = alphabet]

\* max(s), s not empty
SeqMax(s) == CHOOSE m \in {s[k] : k \in 1..Len(s)} : \A k \in 1..Len(s) : s[k] <= m

Count(bl, i) == Cardinality({j \in 1..Len(bl) : bl[j] = i})

\* bl_count[0] stays 0: the counting loop starts at 1
bl_count(bl, MAX_BITS) ==
    [i \in 0..MAX_BITS |-> IF i = 0 THEN 0 ELSE Count(bl, i)]

RECURSIVE base_code_at(_, _)
base_code_at(cnt, bits) ==
    IF bits = 0 THEN 0
    ELSE (base_code_at(cnt, bits - 1) + cnt[bits - 1]) * 2

base_code(bl, MAX_BITS) ==
    LET cnt == bl_count(bl, MAX_BITS)
    IN  [bits \in 0..MAX_BITS |-> base_code_at(cnt, bits)]

\* the body of "for a, bitlen in zip(alphabet, bl)" for the pair (a, bl[a]),
\* on st = the running base_code and the tree
build_tree_step(bl, a, st) ==
    LET bitlen == bl[a + 1]
    IN  IF bitlen = 0 THEN st
        ELSE [base_code |-> [st.base_code EXCEPT ![bitlen] = @ + 1],
              tree |-> insert(st.tree, st.base_code[bitlen], bitlen, a)]

\* the loop's turns for a = lo, lo + 1, ..., hi - 1, in this order (split in
\* halves to keep the evaluation shallow)
RECURSIVE build_tree_loop(_, _, _, _)
build_tree_loop(bl, lo, hi, st) ==
    IF hi <= lo THEN st
    ELSE IF hi = lo + 1 THEN build_tree_step(bl, lo, st)
    ELSE LET mid == (lo + hi) \div 2
             half == build_tree_loop(bl, lo, mid, st)
         IN  After(half, build_tree_loop(bl, mid, hi, half))

\* alphabet is range(alphabet_size); bl is not empty
build_tree(bl, alphabet_size) ==
    LET MAX_BITS == SeqMax(bl)
    IN  build_tree_loop(bl, 0, Min(alphabet_size, Len(bl)),
                        [base_code |-> base_code(bl, MAX_BITS),
                         tree |-> HuffmanTree]).tree

HasChild(tree, node) ==
    (Append(node, 0) \in DOMAIN tree) \/ (Append(node, 1) \in DOMAIN tree)

\* while node.left or node.right: node = node.right if read_bit() else node.left
RECURSIVE decode_symbol_loop(_, _, _)
decode_symbol_loop(rd, tree, node) ==
    IF ~ HasChild(tree, node) THEN Ok(rd, tree[node])
    ELSE LET b == read_bit(rd)
             next_node == Append(node, b.v)
         IN  IF b.exc # "none" THEN b
             ELSE IF next_node \notin DOMAIN tree
             THEN Raise(b.r, "AttributeError")   \* None.left
             ELSE decode_symbol_loop(b.r, tree, next_node)

decode_symbol(rd, huffman_tree) == decode_symbol_loop(rd, huffman_tree, <<>>)

-----------------------------------------------------------------------------
(* Dynamic block header *)

CLEN_CODE_ORDER == <<16, 17, 18, 0, 8, 7, 9, 6, 10, 5, 11, 4, 12, 3, 13, 2, 14, 1, 15>>

Repeat(v, n) == [k \in 1..n |-> v]

\* for i in range(i, HCLEN): code_length_bl[CLEN_CODE_ORDER[i]] = read_bits(3)
RECURSIVE code_length_bl_loop(_, _, _, _)
code_length_bl_loop(rd, i, HCLEN, code_length_bl) ==
    IF i >= HCLEN THEN Ok(rd, code_length_bl)
    ELSE LET b == read_bits(rd, 3)
         IN  IF b.exc # "none" THEN b
             ELSE code_length_bl_loop(b.r, i + 1, HCLEN,
                      [code_length_bl EXCEPT ![CLEN_CODE_ORDER[i + 1] + 1] = b.v])

\* bl.extend(v for _ in range(repeat_length)), repeat_length = the bits e + least
bl_extend(bl, v, least, e) ==
    IF e.exc # "none" THEN e
    ELSE Ok(e.r, bl \o Repeat(v, e.v + least))

\* the branches on the decoded code-length symbol s
bl_symbol(bl, s) ==
    IF s.exc # "none" THEN s
    ELSE IF s.v = NoSymbol THEN Raise(s.r, "TypeError")         \* 0 <= '' <= 15
    ELSE IF s.v <= 15 THEN Ok(s.r, Append(bl, s.v))
    ELSE IF s.v = 16
    THEN IF Len(bl) = 0 THEN Raise(s.r, "IndexError")           \* bl[-1]
         ELSE bl_extend(bl, bl[Len(bl)], 3, read_bits(s.r, 2))
    ELSE IF s.v = 17 THEN bl_extend(bl, 0, 3, read_bits(s.r, 3))
    ELSE bl_extend(bl, 0, 11, read_bits(s.r, 7))

\* one turn of "while len(bl) < HLIT + HDIST", on b = the reader, the list
\* bl (as b.v) and the exception raised; no turn once the loop has ended
bl_step(b, code_length_tree, total) ==
    IF b.exc # "none" \/ Len(b.v) >= total THEN b
    ELSE bl_symbol(b.v, decode_symbol(b.r, code_length_tree))

\* 2^k turns of the loop
RECURSIVE bl_turns(_, _, _, _)
bl_turns(b, code_length_tree, total, k) ==
    IF k = 0 THEN bl_step(b, code_length_tree, total)
    ELSE LET half == bl_turns(b, code_length_tree, total, k - 1)
         IN  After(half, bl_turns(half, code_length_tree, total, k - 1))

\* the loop to its end: every turn appends at least one length, and
\* total <= 288 + 32 < 2^9
bl_loop(rd, code_length_tree, total, bl) ==
    bl_turns(Ok(rd, bl), code_length_tree, total, 9)

\* build the two trees from the decoded lengths b.v
pre_trees(HLIT, b) ==
    IF b.exc # "none" THEN b
    ELSE Ok(b.r, <<build_tree(Slice(b.v, 0, HLIT), 286),
                   build_tree(Slice(b.v, HLIT, Len(b.v)), 30)>>)

\* build the code-length tree from cl.v and decode the HLIT + HDIST lengths
pre_bl(HLIT, HDIST, cl) ==
    IF cl.exc # "none" THEN cl
    ELSE pre_trees(HLIT, bl_loop(cl.r, build_tree(cl.v, 19), HLIT + HDIST, <<>>))

\* HCLEN = h3.v + 4, and the HCLEN code lengths of the code-length alphabet
pre_code_length_bl(HLIT, HDIST, h3) ==
    IF h3.exc # "none" THEN h3
    ELSE pre_bl(HLIT, HDIST, code_length_bl_loop(h3.r, 0, h3.v + 4, Repeat(0, 19)))

\* HDIST = h2.v + 1
pre_HCLEN(HLIT, h2) ==
    IF h2.exc # "none" THEN h2
    ELSE pre_code_length_bl(HLIT, h2.v + 1, read_bits(h2.r, 4))

\* HLIT = h1.v + 257
pre_HDIST(h1) ==
    IF h1.exc # "none" THEN h1
    ELSE pre_HCLEN(h1.v + 257, read_bits(h1.r, 5))

\* the value is <<literal_length_tree, distance_tree>>
preprocessing(rd) == pre_HDIST(read_bits(rd, 5))

-----------------------------------------------------------------------------
(* Fixed Huffman tables *)

fixed_literal_length_bl ==
    [k \in 1..288 |->
        LET i == k - 1
        IN  IF i < 144 \/ 280 <= i THEN 8
            ELSE IF i < 256 THEN 9
            ELSE 7]

fixed_distance_bl == Repeat(5, 30)

fixed_literal_length_tree == build_tree(fixed_literal_length_bl, 286)

fixed_distance_tree == build_tree(fixed_distance_bl, 30)

-----------------------------------------------------------------------------
(* Length and distance tables *)

EXTRA_BITS_LENGTH ==
    <<0, 0, 0, 0, 0, 0, 0, 0, 1, 1, 1, 1, 2, 2, 2, 2, 3, 3, 3, 3,
      4, 4, 4, 4, 5, 5, 5, 5, 0>>

SMALLEST_LENGTH ==
    <<3, 4, 5, 6, 7, 8, 9, 10, 11, 13, 15, 17, 19, 23, 27, 31, 35, 43, 51, 59,
      67, 83, 99, 115, 131, 163, 195, 227, 258>>

EXTRA_BITS_DISTANCE ==
    <<0, 0, 0, 0, 1, 1, 2, 2, 3, 3, 4, 4, 5, 5, 6, 6, 7, 7, 8, 8,
      9, 9, 10, 10, 11, 11, 12, 12, 13, 13>>

SMALLEST_DISTANCE ==
    <<1, 2, 3, 4, 5, 7, 9, 13, 17, 25, 33, 49, 65, 97, 129, 193, 257, 385, 513,
      769, 1025, 1537, 2049, 3073, 4097, 6145, 8193, 12289, 16385, 24577>>

\* output.append(output[-distance])
copy_step(out, distance) == Append(out, out[Len(out) - distance + 1])

\* the copy done as one slice of the buffer as it was before the copy
copy_loop_slice(out, lo, hi, distance) ==
    out \o [k \in 1..(hi - lo) |->
               IF Len(out) - distance + k <= Len(out)
               THEN out[Len(out) - distance + k]
               ELSE 0]

\* for i in range(lo, hi): output.append(output[-distance]), the turns in
\* order (split in halves to keep the evaluation shallow)
RECURSIVE copy_loop(_, _, _, _)
copy_loop(out, lo, hi, distance) ==
    IF hi <= lo THEN out
    ELSE IF hi = lo + 1 THEN copy_step(out, distance)
    ELSE LET mid == (lo + hi) \div 2
             half == copy_loop(out, lo, mid, distance)
         IN  After(half, copy_loop(half, mid, hi, distance))

\* distance = SMALLEST_DISTANCE[distance] + the extra bits dx
ld_pair(length, d, dx) ==
    IF dx.exc # "none" THEN dx
    ELSE Ok(dx.r, <<length, SMALLEST_DISTANCE[d.v + 1] + dx.v>>)

\* d = the decoded distance symbol
ld_distance(length, d) ==
    IF d.exc # "none" THEN d
    ELSE IF d.v = NoSymbol THEN Raise(d.r, "TypeError")      \* SMALLEST_DISTANCE['']
    ELSE ld_pair(length, d, read_bits(d.r, EXTRA_BITS_DISTANCE[d.v + 1]))

\* length = SMALLEST_LENGTH[symbol] + the extra bits lx
ld_length(k, lx, tree) ==
    IF lx.exc # "none" THEN lx
    ELSE ld_distance(SMALLEST_LENGTH[k + 1] + lx.v, decode_symbol(lx.r, tree))

\* the <length, distance> pair of a symbol >= 257: the value is <<length, distance>>
length_distance(rd, symbol, tree) ==
    ld_length(symbol - 257, read_bits(rd, EXTRA_BITS_LENGTH[symbol - 257 + 1]), tree)

-----------------------------------------------------------------------------
(* decompress and inflate, one action per position *)

Raised(rd, e) ==
    /\ pc' = "raised"
    /\ exc' = e
    /\ r' = rd

\* inflate's "if BFINAL == 1: break", then "return output" into decompress
AfterBlock == pc' = IF BFINAL = 1 THEN "trailer" ELSE "inflate"

\* the checks on CMF: the exception raised, or "none"
CMF_check(CMF) ==
    LET CM == CMF % 16
        CINFO == CMF \div 16
    IN  IF CM # 8 THEN "Invalid compression method in PNG"
        ELSE IF CINFO > 7 THEN "Invalid compression info"
        ELSE "none"

\* FLG_check without the check of the preset-dictionary bit
FLG_check_no_FDICT(CMF, FLG) ==
    IF (CMF * 256 + FLG) % 31 # 0 THEN "CMF and FLG check bits failed"
    ELSE "none"

\* the checks on FLG: the exception raised, or "none"
FLG_check(CMF, FLG) ==
    LET FDICT == (FLG \div 32) % 2
    IN  IF (CMF * 256 + FLG) % 31 # 0 THEN "CMF and FLG check bits failed"
        ELSE IF FDICT # 0 THEN "Non-supported dictionary preset"
        ELSE "none"

\* decompress up to the call of inflate, and inflate's "output = []"
Decompress ==
    /\ pc = "decompress"
    /\ LET c == read_byte(BitReader)
           CMF == c.v
           f == read_byte(c.r)
           FLG == f.v
       IN  IF c.exc # "none" THEN Raised(c.r, c.exc)
           ELSE IF CMF_check(CMF) # "none" THEN Raised(c.r, CMF_check(CMF))
           ELSE IF f.exc # "none" THEN Raised(f.r, f.exc)
           ELSE IF FLG_check(CMF, FLG) # "none" THEN Raised(f.r, FLG_check(CMF, FLG))
           ELSE /\ pc' = "inflate"
                /\ r' = f.r
                /\ exc' = exc
    /\ output' = <<>>
    /\ UNCHANGED <<ret, mem, BFINAL, literal_length_tree, distance_tree>>
    /\ UNCHANGED <<png_vars, filter_vars, table_vars>>

\* the head of inflate's loop: BFINAL, BTYPE and the dispatch
Inflate ==
    /\ pc = "inflate"
    /\ LET f == read_bit(r)
           t == read_bits(f.r, 2)
           BTYPE == t.v
       IN  IF f.exc # "none" THEN Raised(f.r, f.exc) /\ BFINAL' = BFINAL
           ELSE IF t.exc # "none" THEN Raised(t.r, t.exc) /\ BFINAL' = f.v
           ELSE IF BTYPE = 3 THEN Raised(t.r, "Reserved (Error) BTYPE") /\ BFINAL' = f.v
           ELSE /\ pc' = CASE BTYPE = 0 -> "inflate_block_no_compression"
                            [] BTYPE = 1 -> "inflate_block_fixed_huffman_code"
                            [] BTYPE = 2 -> "inflate_block_dynamic_huffman_code"
                /\ r' = t.r
                /\ BFINAL' = f.v
                /\ exc' = exc
    /\ UNCHANGED <<ret, mem, output, literal_length_tree, distance_tree>>
    /\ UNCHANGED <<png_vars, filter_vars, table_vars>>

InflateBlockNoCompression ==
    /\ pc = "inflate_block_no_compression"
    /\ LET l == read_bytes(r, 2)
           LEN == l.v
           n == read_bytes(l.r, 2)
           d == read_bytes(n.r, LEN)
       IN  IF l.exc # "none" THEN Raised(l.r, l.exc) /\ output' = output
           ELSE IF n.exc # "none" THEN Raised(n.r, n.exc) /\ output' = output
           ELSE IF d.exc # "none" THEN Raised(d.r, d.exc) /\ output' = output
           ELSE /\ output' = Append(output, d.v)
                /\ r' = d.r
                /\ exc' = exc
                /\ AfterBlock
    /\ UNCHANGED <<ret, mem, BFINAL, literal_length_tree, distance_tree>>
    /\ UNCHANGED <<png_vars, filter_vars, table_vars>>

\* builds the fixed trees; the block is decoded by InflateBlock
InflateBlockFixedHuffmanCode ==
    /\ pc = "inflate_block_fixed_huffman_code"
    /\ literal_length_tree' = fixed_literal_length_tree
    /\ distance_tree' = fixed_distance_tree
    /\ pc' = "inflate_block"
    /\ UNCHANGED <<exc, ret, mem, r, output, BFINAL>>
    /\ UNCHANGED <<png_vars, filter_vars, table_vars>>

\* preprocessing; the block is decoded by InflateBlock
InflateBlockDynamicHuffmanCode ==
    /\ pc = "inflate_block_dynamic_huffman_code"
    /\ LET p == preprocessing(r)
       IN  IF p.exc # "none"
           THEN Raised(p.r, p.exc) /\ UNCHANGED <<literal_length_tree, distance_tree>>
           ELSE /\ literal_length_tree' = p.v[1]
                /\ distance_tree' = p.v[2]
                /\ r' = p.r
                /\ pc' = "inflate_block"
                /\ exc' = exc
    /\ UNCHANGED <<ret, mem, output, BFINAL>>
    /\ UNCHANGED <<png_vars, filter_vars, table_vars>>

\* one turn of inflate_block's loop
InflateBlock ==
    /\ pc = "inflate_block"
    /\ LET s == decode_symbol(r, literal_length_tree)
           symbol == s.v
           ld == length_distance(s.r, symbol, distance_tree)
           length == ld.v[1]
           distance == ld.v[2]
       IN  IF s.exc # "none" THEN Raised(s.r, s.exc) /\ output' = output
           ELSE IF symbol = NoSymbol
           THEN Raised(s.r, "TypeError") /\ output' = output      \* '' <= 255
           ELSE IF symbol <= 255
           THEN /\ output' = Append(output, symbol)
                /\ r' = s.r
                /\ UNCHANGED <<pc, exc>>
           ELSE IF symbol = 256
           THEN /\ AfterBlock
                /\ r' = s.r
                /\ UNCHANGED <<output, exc>>
           ELSE IF ld.exc # "none" THEN Raised(ld.r, ld.exc) /\ output' = output
           ELSE IF distance > Len(output)
           THEN Raised(ld.r, "IndexError") /\ output' = output    \* output[-distance]
           ELSE /\ output' = copy_loop(output, 0, length, distance)
                /\ r' = ld.r
                /\ UNCHANGED <<pc, exc>>
    /\ UNCHANGED <<ret, mem, BFINAL, literal_length_tree, distance_tree>>
    /\ UNCHANGED <<png_vars, filter_vars, table_vars>>

\* decompress after inflate returned: the Adler-32 trailer and the result
Trailer ==
    /\ pc = "trailer"
    /\ LET ADLER32 == read_bytes(r, 4)
       IN  IF ADLER32.exc # "none"
           THEN Raised(ADLER32.r, ADLER32.exc) /\ ret' = ret
           ELSE /\ r' = ADLER32.r
                /\ ret' = output
                /\ pc' = "done"
                /\ exc' = exc
    /\ UNCHANGED <<mem, output, BFINAL, literal_length_tree, distance_tree>>
    /\ UNCHANGED <<png_vars, filter_vars, table_vars>>

-----------------------------------------------------------------------------
(* zlib streams given to decompress *)

\* 08 D7 63 F8 CF C0 00 00 03 01 01 00
Fixture == <<8, 215, 99, 248, 207, 192, 0, 0, 3, 1, 1, 0>>

\* 78 9C, then a final stored block: LEN = 1, NLEN = FFFE, the byte 'A'
StoredExample == <<120, 156, 1, 1, 0, 254, 255, 65>>

\* 78 9C, then a final fixed block: the literal 'A', the back-reference
\* <length 5, distance 1>, end of block
OverlapExample == <<120, 156, 115, 4, 3, 0>>

\* 78 9C, then the fixed block of "ABABAB" (A, B, <length 4, distance 2>)
\* and its Adler-32
RepeatExample == <<120, 156, 115, 116, 114, 4, 66, 0, 5, 100, 1, 138>>

\* 78 9C, then a final dynamic block: HLIT = 257, HDIST = 1, HCLEN = 5; the
\* code-length code gives 8 the code 0 and 18 the code 1; the lengths are 65
\* zeros, 8 for 'A', 138 and 52 zeros, 8 for the end of block, 8 for the
\* distance 0: 258 in all; then 'A' and the end of block
DynamicExample == <<120, 156, 5, 32, 128, 32, 109, 254, 167, 0, 0, 4>>

\* the same block, its code-length code with 16 as well (18: 0, 8: 10,
\* 16: 11), and the last length replaced by the symbol 16 with the extra
\* bits 0: 3 more lengths 8 at the positions 257, 258, 259
OvershootExample == <<120, 156, 5, 32, 132, 64, 108, 249, 75, 53, 0, 128>>

\* 78 9C, then two fixed blocks: 'A' with BFINAL = 0, 'B' with BFINAL = 1
TwoBlockExample == <<120, 156, 114, 4, 204, 9, 0>>

\* 78 9C and 08 D7 pass the header checks; each of the others fails one
\* check: CM = 9, CINFO = 8, FCHECK, FDICT
GoodHeader == <<120, 156>>
BadHeaders == {<<121, 24>>, <<136, 28>>, <<120, 157>>, <<120, 32>>}

\* bytes that begin and continue blocks: 00/01 stored, 73 fixed final
\* starting a literal 'A', 74 04 03 literals and back-references, 05 dynamic,
\* 07 reserved
BodyBytes == {0, 1, 3, 4, 5, 7, 115, 116}

Bodies == SeqsUpTo(BodyBytes, MaxBody)

ZlibInputs ==
    {GoodHeader \o b : b \in Bodies}
    \cup {h \o b : h \in BadHeaders, b \in SeqsUpTo(BodyBytes, 1)}
    \cup {<<>>, <<120>>, <<8>>}
    \cup {Fixture, StoredExample, OverlapExample, RepeatExample}
    \cup {DynamicExample, OvershootExample, TwoBlockExample}

\* the state of the components that are not running
IdleZlib ==
    /\ mem = <<>>
    /\ r = BitReader
    /\ output = <<>>
    /\ BFINAL = 0
    /\ literal_length_tree = NoTree
    /\ distance_tree = NoTree

IdlePNG ==
    /\ data = <<>>
    /\ IHDR_data = <<>>
    /\ id = 0
    /\ IDAT_stream = <<>>

IdleFilter ==
    /\ width = 0
    /\ height = 0
    /\ bytes_per_pixel = 0
    /\ idat_data = <<>>
    /\ recon = <<>>
    /\ idat_i = 0
    /\ row = 0
    /\ col = 0
    /\ filter_type = 0

IdleTable ==
    /\ bl_given = <<>>
    /\ alphabet_given = 0
    /\ table = NoTree

InitZlib ==
    /\ pc = "decompress"
    /\ exc = "none"
    /\ ret = NoValue
    /\ mem \in ZlibInputs
    /\ r = BitReader
    /\ output = <<>>
    /\ BFINAL = 0
    /\ literal_length_tree = NoTree
    /\ distance_tree = NoTree
    /\ IdlePNG
    /\ IdleFilter
    /\ IdleTable

NextZlib ==
    \/ Decompress
    \/ Inflate
    \/ InflateBlockNoCompression
    \/ InflateBlockFixedHuffmanCode
    \/ InflateBlockDynamicHuffmanCode
    \/ InflateBlock
    \/ Trailer

Spec == InitZlib /\ [][NextZlib]_vars

-----------------------------------------------------------------------------
(* CRC-32 (zlib.crc32); a 32-bit word is the set of the positions 0..31 of   *)
(* its 1 bits                                                                *)

\* int.from_bytes(bs, byteorder='big') for at most 4 bytes, as a word
WordOfBytes(bs) ==
    {k \in 0..31 : /\ k \div 8 < Len(bs)
                   /\ (bs[Len(bs) - (k \div 8)] \div Pow2(k % 8)) % 2 = 1}

\* the 4 bytes of a word, big-endian
BytesOfWord(w) ==
    [j \in 1..4 |->
        LET bit(k) == IF (8 * (4 - j) + k) \in w THEN Pow2(k) ELSE 0
        IN  bit(0) + bit(1) + bit(2) + bit(3) + bit(4) + bit(5) + bit(6) + bit(7)]

XorWord(a, b) == (a \ b) \cup (b \ a)

ShiftRight1(w) == {k - 1 : k \in w \ {0}}

\* EDB88320
CRC_POLY == WordOfBytes(<<237, 184, 131, 32>>)

\* 8 turns of "shift right, xor the polynomial if a 1 was shifted out"; each
\* turn's word is bound as a value before the next turn uses it
RECURSIVE crc_rounds(_, _)
crc_rounds(w, n) ==
    IF n = 0 THEN w
    ELSE Bind(IF 0 \in w THEN XorWord(ShiftRight1(w), CRC_POLY) ELSE ShiftRight1(w),
              LAMBDA next : crc_rounds(next, n - 1))

\* the register after the bytes at lo..hi of bs, first to last; the loop over
\* the bytes is split in halves to keep the evaluation shallow
RECURSIVE crc_bytes(_, _, _, _)
crc_bytes(w, bs, lo, hi) ==
    IF lo > hi THEN w
    ELSE IF lo = hi
    THEN Bind(XorWord(w, WordOfBytes(<<bs[lo]>>)), LAMBDA x : crc_rounds(x, 8))
    ELSE Bind((lo + hi) \div 2, LAMBDA mid :
         Bind(crc_bytes(w, bs, lo, mid), LAMBDA half : crc_bytes(half, bs, mid + 1, hi)))

\* zlib.crc32(bs), as a word
crc32(bs) == Bind(bs, LAMBDA b : (0..31) \ crc_bytes(0..31, b, 1, Len(b)))

-----------------------------------------------------------------------------
(* Check_PNG, read_chunk, process_IDAT *)

PNG_HEADER == <<137, 80, 78, 71, 13, 10, 26, 10>>
IHDR == <<73, 72, 68, 82>>
IDAT == <<73, 68, 65, 84>>
IEND == <<73, 69, 78, 68>>

\* int.from_bytes(bs, byteorder='big'), as a number
RECURSIVE from_bytes(_)
from_bytes(bs) ==
    IF Len(bs) = 0 THEN 0
    ELSE 256 * from_bytes(SubSeq(bs, 1, Len(bs) - 1)) + bs[Len(bs)]

\* data.index(tag): the least Python index where tag occurs, or -1 (ValueError)
Index(d, tag) ==
    LET at == {k \in 0..(Len(d) - Len(tag)) : Slice(d, k, k + Len(tag)) = tag}
    IN  IF at = {} THEN -1
        ELSE CHOOSE k \in at : \A j \in at : k <= j

\* read_chunk without the CRC comparison: the payload is returned as it is
read_chunk_unchecked(d, at) ==
    [v |-> Slice(d, at + 4, at + 4 + from_bytes(Slice(d, at - 4, at))),
     exc |-> "none"]

\* read_chunk(data, id), for id >= 4: the payload as v, and the exception;
\* each local is bound to its value where the code assigns it
read_chunk(d, at) ==
    Bind(at, LAMBDA i :
    Bind(Slice(d, i, i + 4), LAMBDA chunk_type :
    Bind(from_bytes(Slice(d, i - 4, i)), LAMBDA len :
    Bind(Slice(d, i + 4, i + 4 + len), LAMBDA chunk_data :
    Bind(Slice(d, i + 4 + len, i + 4 + len + 4), LAMBDA crc_field :
    Bind(WordOfBytes(crc_field), LAMBDA crc_data :
    Bind(crc32(chunk_type \o chunk_data), LAMBDA check_crc :
        IF check_crc # crc_data
        THEN [v |-> <<>>, exc |-> "chunk checksum failed"]
        ELSE [v |-> chunk_data, exc |-> "none"])))))))

\* "id = data.index(tag); read_chunk(data, id)" in a try block: index raises
\* ValueError when the tag is not in data
index_read_chunk(d, tag) ==
    Bind(Index(d, tag), LAMBDA at :
        IF at < 0 THEN [v |-> <<>>, exc |-> "ValueError"] ELSE read_chunk(d, at))

\* b''.join(list)
RECURSIVE join(_)
join(list) == IF Len(list) = 0 THEN <<>> ELSE Head(list) \o join(Tail(list))

Fail(e) == pc' = "raised" /\ exc' = e

\* Check_PNG: the signature and the IHDR chunk
CheckPNG ==
    /\ pc = "Check_PNG"
    /\ \E header \in {Slice(data, 0, 8)}, c \in {index_read_chunk(data, IHDR)} :
           IF header # PNG_HEADER
           THEN Fail("Invalid PNG signature") /\ IHDR_data' = IHDR_data
           ELSE IF c.exc # "none" THEN Fail(c.exc) /\ IHDR_data' = IHDR_data
           ELSE /\ IHDR_data' = c.v
                /\ pc' = "find_IDAT"
                /\ exc' = exc
    /\ UNCHANGED <<ret, data, id, IDAT_stream, zlib_vars, filter_vars, table_vars>>

\* Check_PNG: data.index(b'IDAT'), and the call of process_IDAT up to its loop
FindIDAT ==
    /\ pc = "find_IDAT"
    /\ LET IDAT_id == Index(data, IDAT)
       IN  IF IDAT_id < 0
           THEN Fail("ValueError") /\ UNCHANGED <<id, IDAT_stream>>
           ELSE /\ id' = IDAT_id
                /\ IDAT_stream' = <<>>
                /\ pc' = "process_IDAT"
                /\ exc' = exc
    /\ UNCHANGED <<ret, data, IHDR_data, zlib_vars, filter_vars, table_vars>>

\* process_IDAT's advance past a chunk with len_data payload bytes, by len_data + 11
chunklen_short(len_data) == len_data + 3 + 8

\* chunklen = len(IDAT_stream[-1]) + 4 + 8
chunklen(len_data) == len_data + 4 + 8

\* one turn of process_IDAT's loop; when the loop ends, process_IDAT returns
\* the joined payloads
ProcessIDAT ==
    /\ pc = "process_IDAT"
    /\ \E c \in {read_chunk(data, id)} :
       \E next_id \in {id + chunklen(Len(c.v))} :
           IF c.exc # "none"
           THEN Fail(c.exc) /\ UNCHANGED <<ret, id, IDAT_stream>>
           ELSE /\ IDAT_stream' = Append(IDAT_stream, c.v)
                /\ id' = next_id
                /\ exc' = exc
                /\ IF Slice(data, next_id, next_id + 4) # IDAT
                   THEN pc' = "find_IEND" /\ ret' = join(Append(IDAT_stream, c.v))
                   ELSE pc' = "process_IDAT" /\ ret' = ret
    /\ UNCHANGED <<data, IHDR_data, zlib_vars, filter_vars, table_vars>>

\* Check_PNG: the IEND chunk, and the return of (IHDR_data, IDAT_stream): the
\* pair returned is the variable IHDR_data and, in ret, the stream that
\* process_IDAT returned
CheckIEND ==
    /\ pc = "find_IEND"
    /\ \E c \in {index_read_chunk(data, IEND)} :
           IF c.exc # "none" THEN Fail(c.exc) /\ ret' = ret
           ELSE /\ ret' = ret
                /\ pc' = "done"
                /\ exc' = exc
    /\ UNCHANGED <<data, IHDR_data, id, IDAT_stream, zlib_vars, filter_vars, table_vars>>

-----------------------------------------------------------------------------
(* PNG files given to Check_PNG *)

\* the length field of a chunk: 4 bytes, big-endian
LengthField(n) == <<0, 0, n \div 256, n % 256>>

\* a chunk as a file holds it
Chunk(tag, payload) ==
    LengthField(Len(payload)) \o tag \o payload \o BytesOfWord(crc32(tag \o payload))

\* a chunk damaged after its CRC was computed: "payload" has its first
\* payload byte changed, "crc" its last CRC byte, "length" declares one
\* payload byte more, "long" declares 256 payload bytes more
Damaged(tag, payload, damage) ==
    LET n == Len(payload)
        crc == BytesOfWord(crc32(tag \o payload))
    IN  CASE damage = "none" -> Chunk(tag, payload)
          [] damage = "payload" ->
                LengthField(n) \o tag
                \o (IF n = 0 THEN payload
                    ELSE [payload EXCEPT ![1] = (@ + 1) % 256]) \o
                (IF n = 0 THEN [crc EXCEPT ![1] = (@ + 1) % 256] ELSE crc)
          [] damage = "crc" ->
                LengthField(n) \o tag \o payload \o [crc EXCEPT ![4] = (@ + 1) % 256]
          [] damage = "length" -> LengthField(n + 1) \o tag \o payload \o crc
          [] damage = "long" -> LengthField(n + 256) \o tag \o payload \o crc

Damages == {"none", "payload", "crc", "length", "long"}

tEXt == <<116, 69, 88, 116>>

\* one payload of each length: 255, 0, 255, ...
Payloads == {[k \in 1..n |-> IF k % 2 = 1 THEN 255 ELSE 0] : n \in 0..MaxPayload}

\* a 1 x 1 image, bit depth 8, color type 6
IHDRPayload == <<0, 0, 0, 1, 0, 0, 0, 1, 8, 6, 0, 0, 0>>

\* the chunks between IHDR and IEND: up to MaxChunks chunks, IDAT (whole or
\* damaged) or tEXt
ChunkChoices ==
    {Chunk(IDAT, p) : p \in Payloads}
    \cup {Damaged(IDAT, <<0>>, d) : d \in {"payload", "crc", "long"}}
    \cup {Chunk(tEXt, <<>>)}

RECURSIVE Flatten(_)
Flatten(ss) == IF Len(ss) = 0 THEN <<>> ELSE Head(ss) \o Flatten(Tail(ss))

Middles == {Flatten(cs) : cs \in SeqsUpTo(ChunkChoices, MaxChunks)}

\* whole files, files cut short, files with bytes after IEND or a bad
\* signature, IHDR or IEND chunk
PNGInputs ==
    LET head == PNG_HEADER \o Chunk(IHDR, IHDRPayload)
        tail == Chunk(IEND, <<>>)
    IN  {head \o m \o tail : m \in Middles}
        \cup {head \o m : m \in Middles}
        \cup {head \o m \o tail \o <<0>> : m \in {Chunk(IDAT, p) : p \in Payloads}}
        \cup {head \o m \o Damaged(IEND, <<>>, d) :
                 m \in {Chunk(IDAT, p) : p \in Payloads}, d \in Damages}
        \cup {PNG_HEADER \o Damaged(IHDR, IHDRPayload, d) \o Chunk(IDAT, <<0>>) \o tail :
                 d \in Damages}
        \cup {[PNG_HEADER EXCEPT ![1] = 0] \o Chunk(IHDR, IHDRPayload)
                 \o Chunk(IDAT, <<0>>) \o tail,
              PNG_HEADER, PNG_HEADER \o tail, <<>>}

InitPNG ==
    /\ pc = "Check_PNG"
    /\ exc = "none"
    /\ ret = NoValue
    /\ data \in PNGInputs
    /\ IHDR_data = <<>>
    /\ id = 0
    /\ IDAT_stream = <<>>
    /\ IdleZlib
    /\ IdleFilter
    /\ IdleTable

NextPNG ==
    \/ CheckPNG
    \/ FindIDAT
    \/ ProcessIDAT
    \/ CheckIEND

SpecPNG == InitPNG /\ [][NextPNG]_vars

\* Check_PNG is one synchronous call: it runs to its end; each of its steps
\* changes pc or id
SpecPNGFair == SpecPNG /\ WF_<<pc, id>>(NextPNG)

-----------------------------------------------------------------------------
(* read_IHDR and Filter, as main runs them *)

\* read_IHDR with the two dimensions read little-endian
RECURSIVE from_bytes_little(_)
from_bytes_little(bs) ==
    IF Len(bs) = 0 THEN 0
    ELSE bs[1] + 256 * from_bytes_little(Tail(bs))

read_IHDR_little(d) ==
    LET color_type == d[10]
    IN  IF d[11] # 0 THEN [v |-> NoValue, exc |-> "Invalid compression method"]
        ELSE IF d[12] # 0 THEN [v |-> NoValue, exc |-> "Invalid filter method"]
        ELSE IF color_type # 6 /\ color_type # 2
        THEN [v |-> NoValue, exc |-> "Only support truecolor with alpha RGBA and RGB"]
        ELSE IF d[9] # 8 THEN [v |-> NoValue, exc |-> "Only support a bit depth of 8"]
        ELSE IF d[13] # 0 THEN [v |-> NoValue, exc |-> "Only support no interlacing"]
        ELSE [v |-> <<from_bytes_little(Slice(d, 0, 4)),
                      from_bytes_little(Slice(d, 4, 8)),
                      IF color_type = 6 THEN 4 ELSE 3>>,
              exc |-> "none"]

\* read_IHDR(data): (width, height, byte_per_pixel) as v, and the exception
read_IHDR(d) ==
    LET width_ == from_bytes(Slice(d, 0, 4))
        height_ == from_bytes(Slice(d, 4, 8))
        bitdepth == d[9]
        color_type == d[10]
        compression_method == d[11]
        filter_method == d[12]
        interlace == d[13]
        byte_per_pixel == IF color_type = 6 THEN 4 ELSE 3
    IN  IF Len(d) < 13 THEN [v |-> NoValue, exc |-> "IndexError"]
        ELSE IF compression_method # 0
        THEN [v |-> NoValue, exc |-> "Invalid compression method"]
        ELSE IF filter_method # 0
        THEN [v |-> NoValue, exc |-> "Invalid filter method"]
        ELSE IF color_type # 6 /\ color_type # 2
        THEN [v |-> NoValue, exc |-> "Only support truecolor with alpha RGBA and RGB"]
        ELSE IF bitdepth # 8
        THEN [v |-> NoValue, exc |-> "Only support a bit depth of 8"]
        ELSE IF interlace # 0
        THEN [v |-> NoValue, exc |-> "Only support no interlacing"]
        ELSE [v |-> <<width_, height_, byte_per_pixel>>, exc |-> "none"]

\* main: read_IHDR(IHDR_data), then Filter(width, height, bytes_per_pixel, ...)
ReadIHDR ==
    /\ pc = "read_IHDR"
    /\ LET h == read_IHDR(IHDR_data)
       IN  IF h.exc # "none"
           THEN Fail(h.exc) /\ UNCHANGED <<ret, width, height, bytes_per_pixel>>
           ELSE /\ ret' = h.v
                /\ width' = h.v[1]
                /\ height' = h.v[2]
                /\ bytes_per_pixel' = h.v[3]
                /\ pc' = "re_filter"
                /\ exc' = exc
    /\ recon' = <<>>
    /\ UNCHANGED <<idat_data, idat_i, row, col, filter_type, zlib_vars, png_vars, table_vars>>

stride == width * bytes_per_pixel

recon_a(rr, c) ==
    IF c >= bytes_per_pixel THEN recon[rr * stride + c - bytes_per_pixel + 1] ELSE 0

recon_b(rr, c) ==
    IF rr > 0 THEN recon[(rr - 1) * stride + c + 1] ELSE 0

recon_c(rr, c) ==
    IF rr > 0 /\ c >= bytes_per_pixel
    THEN recon[(rr - 1) * stride + c - bytes_per_pixel + 1]
    ELSE 0

Abs(x) == IF x < 0 THEN 0 - x ELSE x

\* paeth_predictor preferring c to a on a tie
paeth_predictor_strict(a, b, c) ==
    LET p == a + b - c
        pa == Abs(p - a)
        pb == Abs(p - b)
        pc_ == Abs(p - c)
    IN  IF pa <= pb /\ pa < pc_ THEN a
        ELSE IF pb <= pc_ THEN b
        ELSE c

paeth_predictor(a, b, c) ==
    LET p == a + b - c
        pa == Abs(p - a)
        pb == Abs(p - b)
        pc_ == Abs(p - c)
    IN  IF pa <= pb /\ pa <= pc_ THEN a
        ELSE IF pb <= pc_ THEN b
        ELSE c

\* re_filter: the head of a turn of "for r in range(self.height)", the
\* filter-type byte; past the last row, the return of recon
ReFilterRow ==
    /\ pc = "re_filter"
    /\ IF row >= height
       THEN /\ ret' = recon
            /\ pc' = "done"
            /\ UNCHANGED <<exc, idat_i, row, col, filter_type>>
       ELSE IF idat_i >= Len(idat_data)
       THEN Fail("IndexError") /\ UNCHANGED <<ret, idat_i, row, col, filter_type>>
       ELSE /\ filter_type' = idat_data[idat_i + 1]
            /\ idat_i' = idat_i + 1
            /\ col' = 0
            /\ IF stride = 0
               THEN row' = row + 1 /\ pc' = "re_filter"
               ELSE row' = row /\ pc' = "re_filter_byte"
            /\ UNCHANGED <<exc, ret>>
    /\ UNCHANGED <<width, height, bytes_per_pixel, idat_data, recon, zlib_vars, png_vars, table_vars>>

\* re_filter: one turn of "for c in range(self.stride)"
ReFilterByte ==
    /\ pc = "re_filter_byte"
    /\ IF idat_i >= Len(idat_data)
       THEN Fail("IndexError") /\ UNCHANGED <<recon, idat_i, row, col>>
       ELSE IF filter_type \notin 0..4
       THEN Fail("unknown filter type") /\ UNCHANGED <<recon, idat_i, row, col>>
       ELSE LET filt_x == idat_data[idat_i + 1]
                recon_x ==
                    CASE filter_type = 0 -> filt_x
                      [] filter_type = 1 -> filt_x + recon_a(row, col)
                      [] filter_type = 2 -> filt_x + recon_b(row, col)
                      [] filter_type = 3 ->
                            filt_x + (recon_a(row, col) + recon_b(row, col)) \div 2
                      [] filter_type = 4 ->
                            filt_x + paeth_predictor(recon_a(row, col), recon_b(row, col),
                                                     recon_c(row, col))
            IN  /\ recon' = Append(recon, recon_x % 256)
                /\ idat_i' = idat_i + 1
                /\ exc' = exc
                /\ IF col + 1 >= stride
                   THEN row' = row + 1 /\ col' = col /\ pc' = "re_filter"
                   ELSE row' = row /\ col' = col + 1 /\ pc' = "re_filter_byte"
    /\ UNCHANGED <<ret, width, height, bytes_per_pixel, idat_data, filter_type,
                   zlib_vars, png_vars, table_vars>>

-----------------------------------------------------------------------------
(* IHDR payloads and filtered data given to read_IHDR and Filter *)

\* 4-byte dimension fields
Dims == {<<0, 0, 0, 0>>, <<0, 0, 0, 1>>, <<0, 0, 1, 2>>, <<0, 3, 0, 0>>, <<1, 0, 0, 0>>}

\* IHDR payloads of 13 bytes, with no filtered data
IHDRInputs ==
    {w \o h \o <<bitdepth, color_type, compression_method, filter_method, interlace>> :
        w \in Dims, h \in Dims, bitdepth \in {4, 8, 16}, color_type \in {0, 2, 3, 4, 6},
        compression_method \in {0, 1}, filter_method \in {0, 1}, interlace \in {0, 1}}

\* the IHDR payload of a w x h image that read_IHDR accepts
SmallIHDR(w, h, color_type) == <<0, 0, 0, w, 0, 0, 0, h, 8, color_type, 0, 0, 0>>

\* filter-type bytes: the five filters and one that is none of them
FilterTypes == 0..5

\* the data bytes of the scanlines are seed[1] + seed[2] * k (mod 256) at
\* Python index k
Seeds == {<<22, 27>>, <<0, 64>>, <<255, 0>>}

\* h scanlines of st + 1 bytes: the filter-type byte ft[r], then st data bytes
Scanlines(st, h, ft, seed) ==
    [k \in 1..(h * (st + 1)) |->
        IF (k - 1) % (st + 1) = 0
        THEN ft[((k - 1) \div (st + 1)) + 1]
        ELSE (seed[1] + seed[2] * (k - 1)) % 256]

\* the scanlines, whole or with the last byte missing
FilteredInputs(st, h) ==
    LET whole == {Scanlines(st, h, ft, seed) : ft \in [1..h -> FilterTypes], seed \in Seeds}
    IN  whole \cup {SubSeq(d, 1, Len(d) - 1) : d \in {x \in whole : Len(x) > 0}}

ImageInputs ==
    {<<p, <<>> >> : p \in IHDRInputs}
    \cup UNION {{<<SmallIHDR(w, h, ct), d>> :
                    d \in FilteredInputs(w * (IF ct = 6 THEN 4 ELSE 3), h)} :
                 w \in 0..MaxWidth, h \in 0..MaxHeight, ct \in {2, 6}}

InitImage ==
    /\ pc = "read_IHDR"
    /\ exc = "none"
    /\ ret = NoValue
    /\ \E in \in ImageInputs : IHDR_data = in[1] /\ idat_data = in[2]
    /\ data = <<>>
    /\ id = 0
    /\ IDAT_stream = <<>>
    /\ width = 0
    /\ height = 0
    /\ bytes_per_pixel = 0
    /\ recon = <<>>
    /\ idat_i = 0
    /\ row = 0
    /\ col = 0
    /\ filter_type = 0
    /\ IdleZlib
    /\ IdleTable

NextImage ==
    \/ ReadIHDR
    \/ ReFilterRow
    \/ ReFilterByte

SpecImage == InitImage /\ [][NextImage]_vars

-----------------------------------------------------------------------------
(* build_tree on its own: the code-length array and the alphabet are the    *)
(* call's arguments                                                         *)

MaxSymbols == 4   \* the longest code-length array given to build_tree
MaxBits == 2      \* the longest code length in it

\* tree = build_tree(bl, alphabet)
BuildTree ==
    /\ pc = "build_tree"
    /\ table' = build_tree(bl_given, alphabet_given)
    /\ pc' = "done"
    /\ UNCHANGED <<exc, ret, bl_given, alphabet_given, zlib_vars, png_vars,
                   filter_vars>>

\* the arrays of 1..MaxSymbols code lengths 0..MaxBits (the callers give
\* 19, 288, 30 or at least 257 and at least 1 lengths: never none)
CodeLengthArrays == SeqsUpTo(0..MaxBits, MaxSymbols) \ {<<>>}

InitTable ==
    /\ pc = "build_tree"
    /\ exc = "none"
    /\ ret = NoValue
    /\ bl_given \in CodeLengthArrays
    /\ alphabet_given \in 1..MaxSymbols
    /\ table = NoTree
    /\ IdleZlib
    /\ IdlePNG
    /\ IdleFilter

NextTable == BuildTree

SpecTable == InitTable /\ [][NextTable]_vars

-----------------------------------------------------------------------------
(* Properties of decompress and inflate *)

\* the little-endian value of the two bytes at Python index k of mem
LE16(k) == mem[k + 1] + 256 * mem[k + 2]

\* C1 (as claimed): a stored block whose LEN, NLEN and LEN data bytes are in
\* the input appends exactly these LEN bytes, the bytes after the 4 bytes of
\* LEN and NLEN at the next byte boundary, and leaves the cursor after them.
C1_StoredBlockCopiesLenBytes ==
    [][(/\ pc = "inflate_block_no_compression"
        /\ r.byte_pos + 4 <= Len(mem)
        /\ r.byte_pos + 4 + LE16(r.byte_pos) <= Len(mem))
       => (/\ output' = output \o SubSeq(mem, r.byte_pos + 5,
                                         r.byte_pos + 4 + LE16(r.byte_pos))
           /\ r'.byte_pos = r.byte_pos + 4 + LE16(r.byte_pos))]_vars

HelloWorld == <<72, 101, 108, 108, 111, 32, 87, 111, 114, 108, 100, 33>>

\* C2 (as claimed): decompress of the 12-byte fixture returns "Hello World!".
C2_FixtureIsHelloWorld ==
    mem = Fixture => /\ pc # "raised"
                     /\ pc = "done" => ret = HelloWorld

\* C2 (amended): decompress of the 12-byte fixture returns the 4 bytes
\* 00 FF 00 00, and does not raise.
C2_FixtureIsOnePixel ==
    mem = Fixture => /\ pc # "raised"
                     /\ pc = "done" => ret = <<0, 255, 0, 0>>

C2_Witness == mem = Fixture /\ pc = "done" /\ Len(ret) = 4

\* C3: a back-reference of length L and distance d, 1 <= d <= n = the length
\* of the output before it, appends exactly L bytes, keeps the first n, and
\* the byte at n + i is the byte at n + i - d of the result, 0 <= i < L.
C3_BackReferenceCopies ==
    [][LET s == decode_symbol(r, literal_length_tree)
           ld == length_distance(s.r, s.v, distance_tree)
           L == ld.v[1]
           d == ld.v[2]
           n == Len(output)
       IN  (/\ pc = "inflate_block"
            /\ s.exc = "none" /\ s.v >= 257
            /\ ld.exc = "none" /\ 1 <= d /\ d <= n)
           => (/\ Len(output') = n + L
               /\ SubSeq(output', 1, n) = output
               /\ \A k \in 0..(L - 1) : output'[n + k + 1] = output'[n + k + 1 - d])]_vars

\* the spec's example: distance 1, length 5 after a single 'A' gives "AAAAAA"
C3_Witness ==
    /\ mem = OverlapExample
    /\ output = <<65, 65, 65, 65, 65, 65>>

\* the four checks on the two header bytes
HeaderPasses(m) ==
    /\ Len(m) >= 2
    /\ m[1] % 16 = 8
    /\ m[1] \div 16 <= 7
    /\ (m[1] * 256 + m[2]) % 31 = 0
    /\ (m[2] \div 32) % 2 = 0

\* C8: decompress goes past the header only if the two header bytes pass the
\* four checks; otherwise it raises with no DEFLATE bit read and no output.
C8_HeaderChecks ==
    /\ pc \notin {"decompress", "raised"} => HeaderPasses(mem)
    /\ (pc # "decompress" /\ ~ HeaderPasses(mem))
       => /\ pc = "raised"
          /\ r.byte_pos <= 2 /\ r.bit_pos = 0 /\ r.byte = 0
          /\ output = <<>>
          /\ ret = NoValue

C8_Witness ==
    /\ pc = "raised"
    /\ exc = "Non-supported dictionary preset"
    /\ Len(mem) > 2

\* C9 (as claimed): reading the 4 trailer bytes after the final block moves
\* the cursor 4 bytes on, and fails when fewer than 4 bytes remain.
C9_TrailerConsumed ==
    [][pc = "trailer"
       => IF r.byte_pos + 4 <= Len(mem)
          THEN pc' = "done" /\ r'.byte_pos = r.byte_pos + 4
          ELSE pc' = "raised"]_vars

-----------------------------------------------------------------------------
(* Properties of Check_PNG, read_chunk and process_IDAT *)

\* the big-endian value of the 4 bytes before Python index at of data
LengthBefore(at) ==
    16777216 * data[at - 3] + 65536 * data[at - 2] + 256 * data[at - 1] + data[at]

\* the payload the length field before at declares, and the 4 bytes after it
PayloadAt(at) == Slice(data, at + 4, at + 4 + LengthBefore(at))
StoredCRCAt(at) ==
    Slice(data, at + 4 + LengthBefore(at), at + 4 + LengthBefore(at) + 4)

\* CRC32(tag followed by payload) is the 4-byte value stored after the payload
CRCMatchesAt(at) ==
    BytesOfWord(crc32(Slice(data, at, at + 4) \o PayloadAt(at))) = StoredCRCAt(at)

\* C6: read_chunk at a tag offset, with the 4 CRC bytes present after the
\* payload that the big-endian length before the tag declares, returns this
\* payload if CRC32(tag, payload) is the stored value, and raises a checksum
\* error otherwise (at each of its calls: IHDR, every IDAT, IEND).
C6_ChunkChecksum ==
    [][LET at == CASE pc = "process_IDAT" -> id
                   [] pc = "find_IEND" -> Index(data, IEND)
                   [] OTHER -> Index(data, IHDR)
           reads == \/ pc = "process_IDAT"
                    \/ pc = "find_IEND" /\ at >= 0
                    \/ pc = "Check_PNG" /\ Slice(data, 0, 8) = PNG_HEADER /\ at >= 0
       IN  (reads /\ Len(StoredCRCAt(at)) = 4)
           => IF CRCMatchesAt(at)
              THEN /\ pc' # "raised"
                   /\ pc = "process_IDAT" => IDAT_stream' = Append(IDAT_stream, PayloadAt(at))
                   /\ pc = "Check_PNG" => IHDR_data' = PayloadAt(at)
                   /\ pc = "find_IEND" => pc' = "done"
              ELSE /\ pc' = "raised"
                   /\ exc' = "chunk checksum failed"
                   /\ UNCHANGED <<ret, IHDR_data, IDAT_stream>>]_vars

\* a chunk with one payload byte changed was read and rejected in process_IDAT
C6_Witness ==
    /\ pc = "raised"
    /\ exc = "chunk checksum failed"
    /\ id > 0
    /\ Len(StoredCRCAt(id)) = 4
    /\ Len(PayloadAt(id)) > 0

\* C10: each turn of process_IDAT reads the chunk at id, raises if its CRC
\* does not match, and otherwise appends its payload and advances id by the
\* payload length + 12; it goes on while the 4 bytes at id are "IDAT" and
\* returns, at the first id where they are not, the payloads joined in the
\* order read; and the loop ends.
C10_ProcessIDAT ==
    /\ [][pc = "process_IDAT"
          => IF Len(StoredCRCAt(id)) = 4 /\ CRCMatchesAt(id)
             THEN /\ id' = id + LengthBefore(id) + 12
                  /\ IDAT_stream' = Append(IDAT_stream, PayloadAt(id))
                  /\ IF Slice(data, id', id' + 4) = IDAT
                     THEN pc' = "process_IDAT"
                     ELSE pc' = "find_IEND" /\ ret' = Flatten(IDAT_stream')
             ELSE Len(StoredCRCAt(id)) = 4 => pc' = "raised"]_vars
    /\ (pc = "process_IDAT") ~> (pc # "process_IDAT")

\* two IDAT chunks were read and process_IDAT returned their payloads joined
C10_Witness ==
    /\ pc = "find_IEND"
    /\ Len(IDAT_stream) = 2
    /\ Len(IDAT_stream[1]) > 0 /\ Len(IDAT_stream[2]) > 0
    /\ ret = IDAT_stream[1] \o IDAT_stream[2]

-----------------------------------------------------------------------------
(* Properties of read_IHDR and Filter.re_filter *)

\* the big-endian value of the 4 bytes from Python index k of the IHDR payload
BE32(k) ==
    16777216 * IHDR_data[k + 1] + 65536 * IHDR_data[k + 2]
    + 256 * IHDR_data[k + 3] + IHDR_data[k + 4]

\* C7: read_IHDR of a 13-byte payload returns if and only if compression
\* method = 0, filter method = 0, bit depth = 8, interlace = 0 and color type
\* is 2 or 6, and raises otherwise; it returns the big-endian values of bytes
\* 0-3 and 4-7, and 3 bytes per pixel for color type 2, 4 for color type 6.
C7_ReadIHDR ==
    [][(pc = "read_IHDR" /\ Len(IHDR_data) = 13)
       => IF /\ IHDR_data[11] = 0 /\ IHDR_data[12] = 0 /\ IHDR_data[9] = 8
             /\ IHDR_data[13] = 0 /\ IHDR_data[10] \in {2, 6}
          THEN /\ pc' # "raised"
               /\ ret' = <<BE32(0), BE32(4), IF IHDR_data[10] = 2 THEN 3 ELSE 4>>
          ELSE pc' = "raised" /\ ret' = NoValue]_vars

\* read_IHDR returned a width of more than one byte, 0x0102, for color type 6
C7_Witness ==
    /\ pc # "read_IHDR"
    /\ width = 258
    /\ bytes_per_pixel = 4
    /\ IHDR_data[3] = 1 /\ IHDR_data[4] = 2

\* the reconstructed byte at row rr, column cc of the buffer rec; 0 outside
ByteAt(rec, rr, cc) ==
    IF rr < 0 \/ cc < 0 THEN 0 ELSE rec[rr * stride + cc + 1]

\* the one of a, b, c0 closest to a + b - c0; on a tie a, then b, then c0
PaethChoice(a, b, c0) ==
    LET far(x) == Abs(a + b - c0 - x)
    IN  IF far(a) <= far(b) /\ far(a) <= far(c0) THEN a
        ELSE IF far(b) <= far(c0) THEN b
        ELSE c0

Predictor(ft, a, b, c0) ==
    CASE ft = 0 -> 0
      [] ft = 1 -> a
      [] ft = 2 -> b
      [] ft = 3 -> (a + b) \div 2
      [] ft = 4 -> PaethChoice(a, b, c0)

\* C4: the byte re_filter appends for row r, column c is (filtered +
\* predictor) mod 256, the predictor by the row's filter-type byte from the
\* reconstructed bytes a at (r, c - bpp), b at (r - 1, c), c0 at (r - 1, c - bpp).
C4_Defilter ==
    [][(pc = "re_filter_byte" /\ pc' # "raised")
       => LET ft == idat_data[row * (stride + 1) + 1]
              filtered == idat_data[row * (stride + 1) + col + 2]
              a == ByteAt(recon', row, col - bytes_per_pixel)
              b == ByteAt(recon', row - 1, col)
              c0 == IF row > 0 THEN ByteAt(recon', row - 1, col - bytes_per_pixel) ELSE 0
          IN  /\ Len(recon) = row * stride + col
              /\ recon' = Append(recon, (filtered + Predictor(ft, a, b, c0)) % 256)]_vars

\* a Paeth byte was reconstructed where a and c0 differ and are equally close
\* to a + b - c0, and b is no closer
C4_Witness ==
    /\ pc \in {"re_filter", "re_filter_byte"}
    /\ filter_type = 4
    /\ Len(recon) > stride + bytes_per_pixel
    /\ LET k == Len(recon) - 1
           rr == k \div stride
           cc == k % stride
           a == ByteAt(recon, rr, cc - bytes_per_pixel)
           b == ByteAt(recon, rr - 1, cc)
           c0 == ByteAt(recon, rr - 1, cc - bytes_per_pixel)
       IN  /\ rr > 0 /\ cc >= bytes_per_pixel
           /\ a # c0
           /\ Abs(b - c0) = Abs(a + b - c0 - c0)
           /\ Abs(b - c0) <= Abs(a - c0)

\* C5 (as claimed): when a row of the filtered data of an image read_IHDR
\* accepted has a filter-type byte outside 0..4, re_filter ends with the
\* invalid-filter error and returns no buffer.
C5_InvalidFilterRaises ==
    (/\ pc \in {"done", "raised"}
     /\ height <= Len(idat_data)
     /\ height * (stride + 1) <= Len(idat_data)
     /\ \E rr \in 0..(height - 1) : idat_data[rr * (stride + 1) + 1] \notin 0..4)
    => (pc = "raised" /\ exc = "unknown filter type")


-----------------------------------------------------------------------------
(* Properties of build_tree *)

\* the symbols build_tree inserts: those of zip(alphabet, bl) with a length
\* that is not 0
Inserted ==
    {a \in 0..(Min(alphabet_given, Len(bl_given)) - 1) : bl_given[a + 1] # 0}

\* C11: the table build_tree returns is a prefix code: every inserted symbol
\* is found at a node as deep as its code length (no insertion has
\* overwritten it), and every node that holds a symbol is a leaf (no code is
\* a prefix of another code)
C11_PrefixCode ==
    (pc = "done" /\ bl_given # <<>>) =>
        /\ \A a \in Inserted :
               \E node \in DOMAIN table :
                   table[node] = a /\ Len(node) = bl_given[a + 1]
        /\ \A node \in DOMAIN table :
               table[node] # NoSymbol => ~ HasChild(table, node)


-----------------------------------------------------------------------------
(* Properties of preprocessing *)

\* the header of the dynamic block at the reader rd: HLIT, HDIST, and bl as
\* the loop "while len(bl) < HLIT + HDIST" leaves it
HeaderHLIT(rd) == read_bits(rd, 5).v + 257
HeaderHDIST(rd) == read_bits(read_bits(rd, 5).r, 5).v + 1
HeaderBl(rd) ==
    LET h2 == read_bits(read_bits(rd, 5).r, 5)
        h3 == read_bits(h2.r, 4)
        cl == code_length_bl_loop(h3.r, 0, h3.v + 4, Repeat(0, 19))
    IN  bl_loop(cl.r, build_tree(cl.v, 19),
                HeaderHLIT(rd) + HeaderHDIST(rd), <<>>).v

\* C12: when preprocessing returns, the literal/length tree is the one built
\* from the first HLIT decoded lengths and the distance tree is the one built
\* from the HDIST lengths after them; lengths decoded beyond HLIT + HDIST by
\* a repeat symbol are in neither
C12_ExactSplit ==
    [][(pc = "inflate_block_dynamic_huffman_code" /\ pc' = "inflate_block") =>
          /\ literal_length_tree' =
                 build_tree(Slice(HeaderBl(r), 0, HeaderHLIT(r)), 286)
          /\ distance_tree' =
                 build_tree(Slice(HeaderBl(r), HeaderHLIT(r),
                                  HeaderHLIT(r) + HeaderHDIST(r)), 30)]_vars


-----------------------------------------------------------------------------
(* Properties of inflate's loop *)

\* the positions a block is completed from
BlockPositions == {"inflate_block_no_compression", "inflate_block"}

\* inflate returns its output to decompress
InflateReturns == pc # "trailer" /\ pc' = "trailer"

\* an iteration reads BFINAL (1 bit), then BTYPE (2 bits), at the cursor and
\* passes to the decoder of that block type; it raises when the input ends
\* in the header or BTYPE = 3
HeaderInOrder ==
    pc = "inflate" =>
        LET f == read_bit(r)
            t == read_bits(f.r, 2)
        IN  IF f.exc # "none" \/ t.exc # "none" \/ t.v = 3
            THEN pc' = "raised"
            ELSE /\ BFINAL' = f.v
                 /\ r' = t.r
                 /\ pc' = CASE t.v = 0 -> "inflate_block_no_compression"
                              [] t.v = 1 -> "inflate_block_fixed_huffman_code"
                              [] t.v = 2 -> "inflate_block_dynamic_huffman_code"

\* a completed block is followed by the return when its BFINAL is 1 and by
\* the next block header when it is 0; nothing else returns or reads a header
BlockOrder ==
    /\ (pc \in BlockPositions /\ pc' \notin {pc, "raised"}) =>
           pc' = IF BFINAL = 1 THEN "trailer" ELSE "inflate"
    /\ InflateReturns => (pc \in BlockPositions /\ BFINAL = 1)
    /\ pc' = "inflate" =>
           (pc = "decompress" \/ (pc \in BlockPositions /\ BFINAL = 0))

\* the block inflate returns after lies in the input: a stored block's LEN,
\* NLEN and LEN data bytes, a compressed block's bits up to the end of block
FinalBlockInInput ==
    InflateReturns =>
        /\ r'.byte_pos <= Len(mem)
        /\ pc = "inflate_block_no_compression" =>
               /\ r.byte_pos + 4 <= Len(mem)
               /\ r.byte_pos + 4 + LE16(r.byte_pos) <= Len(mem)

\* C13: inflate decodes the blocks in stream order over one cursor: each
\* iteration reads BFINAL then BTYPE and decodes that block; it returns
\* exactly after the first block with BFINAL = 1 and reads another header
\* after every block with BFINAL = 0; it never returns when BTYPE = 3 or when
\* the input ends before the block with BFINAL = 1 is complete
C13_BlockLoop == [][HeaderInOrder /\ BlockOrder /\ FinalBlockInInput]_vars

=============================================================================
